---------------------------- MODULE Spec2Model ----------------------------
(***************************************************************************)
(* A model of "Family Tree/familytree.js": the fan-in join of the file     *)
(* reads (fileSink/start), the record merge and the linker (fromJSON,      *)
(* linkPeople, findPerson), the memoized recursive layout (layOut,         *)
(* setUpPerson: getWidth, show, place, draw), the mouse and touch pans.     *)
(*                                                                         *)
(* Objects are identified by their id: after the merge every id occurs     *)
(* once in the working array, so a link to a person object is its id.      *)
(* An absent JavaScript string property is "", an absent children          *)
(* property is hasChildren = FALSE.                                        *)
(*                                                                         *)
(* Lengths are kept in quarter pixels (the code halves pixel values        *)
(* twice), so that every coordinate the code computes is an integer here.  *)
(***************************************************************************)
EXTENDS Integers, Sequences, FiniteSets

VARIABLES
    innerWidth,   \* window.innerWidth, read once for TREE_X
    files,        \* document.querySelector("#files").files of the submission
    pending,      \* indices of the FileReaders whose onload has not fired yet
    jsons,        \* the closure's jsons array, in order of read completion
    startedAt,    \* history: jsons.length at each invocation of start
    pc,           \* "reading", "resolved" / "rejected" (the fromJSON promise), "ready"
    people,       \* the array fromJSON resolves with (linked persons)
    warnings,     \* history: the ids warn() was called with
    width,        \* person._width for each person (0: unset or falsy)
    divs,         \* the divs array: person id -> its current div
    lines,        \* svg.children, in order of creation
    root,         \* the root layOut last drew from ("" before the first layout)
    mouseOver,    \* tree.mouseOver
    dragging,     \* document.onmousemove is onMouseMove
    startX,       \* startX, in pixels
    startY,       \* startY, in pixels
    startDefined, \* startX and startY hold numbers (FALSE: they are undefined)
    touching,     \* document.ontouchmove is onTouchMove
    last,         \* history: the last event that changed the render state
    nEvents       \* history: number of mousemove events so far

vars == <<innerWidth, files, pending, jsons, startedAt, pc, people, warnings,
          width, divs, lines, root, mouseOver, dragging, startX, startY,
          startDefined, touching, last, nEvents>>

-----------------------------------------------------------------------------
(* Records and files *)

\* An UnlinkedPerson as JSON.parse yields it.
Rec(id, name, partner, hasChildren, children) ==
    [id |-> id, name |-> name, partner |-> partner,
     hasChildren |-> hasChildren, children |-> children]

\* The text of a file: either the JSON of an array of records, or text that
\* JSON.parse rejects.
Json(recs) == [ok |-> TRUE, recs |-> recs]
Malformed == [ok |-> FALSE, recs |-> <<>>]

Range(s) == {s[i] : i \in 1..Len(s)}

\* Array.prototype.findIndex / find on the id: the first index whose id matches, 0 if none.
FindIndex(arr, id) ==
    IF \E j \in 1..Len(arr) : arr[j].id = id
    THEN CHOOSE j \in 1..Len(arr) :
            arr[j].id = id /\ \A k \in 1..(j - 1) : arr[k].id # id
    ELSE 0

Includes(s, x) == \E i \in 1..Len(s) : s[i] = x

-----------------------------------------------------------------------------
(* fromJSON: parse, merge duplicates, link *)

\* for (const json of jsons) people.push(...JSON.parse(json))
RECURSIVE ParseAll(_)
ParseAll(js) ==
    IF js = <<>> THEN <<>> ELSE Head(js).recs \o ParseAll(Tail(js))

\* JSON.parse throws on some element of jsons
ParseThrows(js) == \E i \in 1..Len(js) : ~js[i].ok

\* for (const child of person.children) if (!duplicate.children.includes(child)) push
RECURSIVE UnionChildren(_, _)
UnionChildren(dst, src) ==
    IF src = <<>> THEN dst
    ELSE UnionChildren(IF Includes(dst, Head(src)) THEN dst ELSE Append(dst, Head(src)),
                       Tail(src))

NoFill(duplicate, person) == duplicate

\* The body of the filter callback for a later duplicate: the earlier record
\* after "Update the previous duplicate with the new information".
MergeInto(duplicate, person) ==
    LET d1 == IF duplicate.partner = ""
              THEN [duplicate EXCEPT !.partner = person.partner]
              ELSE duplicate
    IN  IF d1.hasChildren /\ person.hasChildren
        THEN [d1 EXCEPT !.children = UnionChildren(d1.children, person.children)]
        ELSE IF ~d1.hasChildren
             THEN [d1 EXCEPT !.hasChildren = person.hasChildren,
                             !.children = person.children]
             ELSE d1

\* people.filter(...): the callback runs for index 1, 2, ... and mutates the
\* earlier duplicate in place; keep is the set of indices it returned true for.
RECURSIVE MergeFrom(_, _, _)
MergeFrom(arr, index, keep) ==
    IF index > Len(arr) THEN [arr |-> arr, keep |-> keep]
    ELSE LET pIndex == FindIndex(arr, arr[index].id)
         IN  IF pIndex = index
             THEN MergeFrom(arr, index + 1, keep \cup {index})
             ELSE MergeFrom([arr EXCEPT ![pIndex] = MergeInto(arr[pIndex], arr[index])],
                            index + 1, keep)

RECURSIVE Pick(_, _, _)
Pick(arr, keep, i) ==
    IF i > Len(arr) THEN <<>>
    ELSE (IF i \in keep THEN <<arr[i]>> ELSE <<>>) \o Pick(arr, keep, i + 1)

\* const peopleSet = people.filter(...)
MergeDuplicates(arr) ==
    LET m == MergeFrom(arr, 1, {}) IN Pick(m.arr, m.keep, 1)

\* The linker's working state: the array and the warnings given so far.
LinkState(arr, warns) == [arr |-> arr, warns |-> warns]

FindPersonNoPush(s, id) ==
    IF FindIndex(s.arr, id) # 0 THEN s ELSE LinkState(s.arr, Append(s.warns, id))

\* findPerson(people, id): the array and warnings after the call. The person
\* returned is the one with this id in the resulting array.
FindPerson(s, id) ==
    IF FindIndex(s.arr, id) # 0 THEN s
    ELSE LET hasPartner == \E j \in 1..Len(s.arr) : s.arr[j].partner = id
             partner == CHOOSE j \in 1..Len(s.arr) :
                           /\ s.arr[j].partner = id
                           /\ \A k \in 1..(j - 1) : s.arr[k].partner # id
             newPerson == Rec(id, id,
                              IF hasPartner THEN s.arr[partner].id ELSE "",
                              TRUE, <<>>)
         IN  LinkState(Append(s.arr, newPerson), Append(s.warns, id))

RECURSIVE FindChildren(_, _)
FindChildren(s, childrenIDs) ==
    IF childrenIDs = <<>> THEN s
    ELSE FindChildren(FindPerson(s, Head(childrenIDs)), Tail(childrenIDs))

\* One iteration of linkPeople's loop, for the person at index i.
LinkOne(s, i) ==
    LET person == s.arr[i]
        s1 == IF person.partner # "" THEN FindPerson(s, person.partner) ELSE s
        childrenIDs == IF person.hasChildren THEN person.children ELSE <<>>
        s2 == FindChildren(s1, childrenIDs)
    IN  LinkState([s2.arr EXCEPT ![i] = [@ EXCEPT !.hasChildren = TRUE,
                                                  !.children = childrenIDs]],
                  s2.warns)

\* for (const person of people): the array iterator also visits the persons
\* findPerson pushes during the loop.
RECURSIVE LinkFrom(_, _)
LinkFrom(s, i) ==
    IF i > Len(s.arr) THEN s ELSE LinkFrom(LinkOne(s, i), i + 1)

LinkPeople(arr) == LinkFrom(LinkState(arr, <<>>), 1)

\* fromJSON(jsons) when no parse throws: the array the promise resolves with
\* and the warnings given on the way.
FromJSON(js) == LinkPeople(MergeDuplicates(ParseAll(js)))

-----------------------------------------------------------------------------
(* The DOM as the layout code reads and writes it *)

PERSON_SPACE == 20
GEN_SPACE == 55

\* Quarter pixels of a whole number of pixels.
Q(px) == 4 * px

\* The person object with this id (ids are unique after fromJSON).
PersonOf(ppl, id) == ppl[FindIndex(ppl, id)]

Ids(ppl) == {ppl[i].id : i \in 1..Len(ppl)}

\* The rendered width, in pixels, of a name box with this text (text shaping
\* is the browser's; any fixed positive table will do).
TextWidth(name) ==
    CASE name = "c" -> 50
      [] name = "d" -> 50
      [] name = "a" -> 41
      [] name = "b" -> 50
      [] name = "e" -> 33
      [] OTHER -> 72

\* The rendered height, in pixels, of a name box.
BoxHeight == 30

\* document.createElement("div"): not in the document, no inline position.
NewDiv == [attached |-> FALSE, left |-> 0, top |-> 0]

\* div.offsetWidth, in pixels: 0 for a div that is not in the document.
OffsetWidth(ppl, dv, id) ==
    IF dv[id].attached THEN TextWidth(PersonOf(ppl, id).name) ELSE 0

\* offsetLeft and offsetTop are integers (CSSOM View: long): a position of
\* some pixels and a half reads as the nearest whole pixel.
RoundPx(q) == ((q + 2) \div 4) * 4

\* div.offsetLeft / div.offsetTop of a div whose style position is q, in
\* quarter pixels (0 for a div that is not in the document).
Offset(d, q) == IF d.attached THEN RoundPx(q) ELSE 0

\* div.style.top = div.offsetTop + y + "px"; div.style.left = div.offsetLeft + x + "px"
MoveDiv(d, x, y) ==
    [d EXCEPT !.top = Offset(d, d.top) + y, !.left = Offset(d, d.left) + x]

\* move(div, x, y)
Move(dv, id, x, y) == [dv EXCEPT ![id] = MoveDiv(dv[id], x, y)]

\* div.getBoundingClientRect(), in quarter pixels (all 0 when not in the document).
Rect(ppl, dv, id) ==
    IF dv[id].attached
    THEN [left |-> dv[id].left, top |-> dv[id].top,
          right |-> dv[id].left + Q(OffsetWidth(ppl, dv, id)),
          bottom |-> dv[id].top + Q(BoxHeight)]
    ELSE [left |-> 0, top |-> 0, right |-> 0, bottom |-> 0]

Max(a, b) == IF a >= b THEN a ELSE b

-----------------------------------------------------------------------------
(* setUpPerson: the closures attached to each person *)

\* person.getPartnerWidth(), in pixels
GetPartnerWidth(ppl, dv, id) ==
    LET person == PersonOf(ppl, id)
    IN  IF person.partner # ""
        THEN OffsetWidth(ppl, dv, id) + PERSON_SPACE + OffsetWidth(ppl, dv, person.partner)
        ELSE OffsetWidth(ppl, dv, id)

\* person.getWidth() and person.getChildrenWidth(): the value returned, in
\* pixels, and the _width fields after the call.
RECURSIVE GetWidth(_, _, _, _)
RECURSIVE SumWidths(_, _, _, _, _)

\* person.children.reduce((sum, child) => sum + child.getWidth(), 0)
SumWidths(ppl, dv, memo, children, sum) ==
    IF children = <<>> THEN [w |-> sum, memo |-> memo]
    ELSE LET g == GetWidth(ppl, dv, memo, Head(children))
         IN  SumWidths(ppl, dv, g.memo, Tail(children), sum + g.w)

\* A linked person's children is always an array, so the "return 0" of the
\* code is never taken.
GetChildrenWidth(ppl, dv, memo, id) ==
    LET person == PersonOf(ppl, id)
        r == SumWidths(ppl, dv, memo, person.children, 0)
    IN  [w |-> r.w + (Len(person.children) - 1) * PERSON_SPACE, memo |-> r.memo]

GetWidth(ppl, dv, memo, id) ==
    IF memo[id] # 0 THEN [w |-> memo[id], memo |-> memo]
    ELSE LET c == GetChildrenWidth(ppl, dv, memo, id)
             w == Max(GetPartnerWidth(ppl, dv, id), c.w)
         IN  [w |-> w, memo |-> [c.memo EXCEPT ![id] = w]]

\* person.show(): the divs after the call
RECURSIVE Show(_, _, _)
RECURSIVE ShowAll(_, _, _)
ShowAll(ppl, dv, children) ==
    IF children = <<>> THEN dv
    ELSE ShowAll(ppl, Show(ppl, dv, Head(children)), Tail(children))

Show(ppl, dv, id) ==
    LET person == PersonOf(ppl, id)
        dv1 == [dv EXCEPT ![id].attached = TRUE]
    IN  IF person.partner # ""
        THEN ShowAll(ppl, [dv1 EXCEPT ![person.partner].attached = TRUE], person.children)
        ELSE dv1

\* The state place threads through: the divs and the _width fields.
Lay(dv, memo) == [divs |-> dv, memo |-> memo]

\* person.place(x, y), x and y in quarter pixels
RECURSIVE Place(_, _, _, _, _)
RECURSIVE PlaceChildren(_, _, _, _, _)

\* for (const child of person.children) { child.place(left, y + GEN_SPACE); left += ... }
PlaceChildren(ppl, L, children, left, y) ==
    IF children = <<>> THEN L
    ELSE LET L1 == Place(ppl, L, Head(children), left, y)
             g == GetWidth(ppl, L1.divs, L1.memo, Head(children))
         IN  PlaceChildren(ppl, Lay(L1.divs, g.memo), Tail(children),
                           left + Q(g.w) + Q(PERSON_SPACE), y)

Place(ppl, L, id, x, y) ==
    LET person == PersonOf(ppl, id)
        g == GetWidth(ppl, L.divs, L.memo, id)
        pw == GetPartnerWidth(ppl, L.divs, id)
        personLeft == x + 2 * (g.w - pw)
        dv1 == Move(L.divs, id, personLeft, y)
    IN  IF person.partner # ""
        THEN LET dv2 == Move(dv1, person.partner,
                             personLeft + Q(OffsetWidth(ppl, dv1, id)) + Q(PERSON_SPACE), y)
                 c == GetChildrenWidth(ppl, dv2, g.memo, id)
                 left == IF c.w > pw THEN x ELSE x + 2 * (pw - c.w)
             IN  PlaceChildren(ppl, Lay(dv2, c.memo), person.children, left, y + Q(GEN_SPACE))
        ELSE Lay(dv1, g.memo)

-----------------------------------------------------------------------------
(* The connector lines *)

\* A line of the svg. Its four attributes are numbers, or all four are
\* "NaN" (nan = TRUE, the numbers then held at 0).
Line(kind, x1, y1, x2, y2) ==
    [kind |-> kind, nan |-> FALSE, x1 |-> x1, y1 |-> y1, x2 |-> x2, y2 |-> y2]

\* drawPartnerLine(div1, div2)
DrawPartnerLine(r1, r2) ==
    LET y == (r1.top + r1.bottom) \div 2
    IN  Line("partner", r1.right, y, r2.left + Q(1), y)

\* drawPartnerToChildrenLine(div1, div2)
DrawPartnerToChildrenLine(r1, r2) ==
    LET x == (r1.right + r2.left) \div 2
        y == (r1.top + r1.bottom) \div 2
    IN  Line("partnerToChildren", x, y, x, y + Q(GEN_SPACE) \div 2)

\* drawChildLine(div)
DrawChildLine(r) ==
    LET x == (r.left + r.right) \div 2
    IN  Line("child", x, r.top, x, (r.top + r.bottom - Q(GEN_SPACE)) \div 2)

\* drawOnlyChildLine(div1, div2)
DrawOnlyChildLine(r1, r2) ==
    LET x == (r1.right + r2.left) \div 2
        y == (r1.top + r1.bottom) \div 2
    IN  Line("onlyChild", x, y, x, y + Q(GEN_SPACE) + (r1.top - r1.bottom) \div 2)

\* drawConnectChildrenLine(div1, div2)
DrawConnectChildrenLine(r1, r2) ==
    LET y == (r1.top + r1.bottom - Q(GEN_SPACE)) \div 2
    IN  Line("connectChildren", (r1.left + r1.right) \div 2 - Q(1), y,
             (r2.left + r2.right) \div 2 + Q(1), y)

\* person.draw(): the lines it appends to the svg, in order
RECURSIVE Draw(_, _, _)
RECURSIVE DrawChildren(_, _, _)

\* for (child of person.children) { drawChildLine(child.div); child.draw(); }
DrawChildren(ppl, dv, children) ==
    IF children = <<>> THEN <<>>
    ELSE <<DrawChildLine(Rect(ppl, dv, Head(children)))>>
         \o Draw(ppl, dv, Head(children))
         \o DrawChildren(ppl, dv, Tail(children))

DrawSpanFromOne(ppl, dv, id) ==
    LET person == PersonOf(ppl, id)
        n == Len(person.children)
        r1 == Rect(ppl, dv, id)
    IN  IF person.partner = "" THEN <<>>
        ELSE LET r2 == Rect(ppl, dv, person.partner)
             IN  <<DrawPartnerLine(r1, r2)>> \o
                 (IF n >= 1
                  THEN <<DrawPartnerToChildrenLine(r1, r2)>>
                       \o DrawChildren(ppl, dv, person.children)
                       \o <<DrawConnectChildrenLine(Rect(ppl, dv, person.children[1]),
                                                    Rect(ppl, dv, person.children[n]))>>
                  ELSE <<>>)

Draw(ppl, dv, id) ==
    LET person == PersonOf(ppl, id)
        n == Len(person.children)
        r1 == Rect(ppl, dv, id)
    IN  IF person.partner = "" THEN <<>>
        ELSE LET r2 == Rect(ppl, dv, person.partner)
             IN  <<DrawPartnerLine(r1, r2)>> \o
                 (IF n > 1
                  THEN <<DrawPartnerToChildrenLine(r1, r2)>>
                       \o DrawChildren(ppl, dv, person.children)
                       \o <<DrawConnectChildrenLine(Rect(ppl, dv, person.children[1]),
                                                    Rect(ppl, dv, person.children[n]))>>
                  ELSE IF n = 1
                       THEN <<DrawOnlyChildLine(r1, r2)>> \o Draw(ppl, dv, person.children[1])
                       ELSE <<>>)

-----------------------------------------------------------------------------
(* layOut *)

\* TREE_X and TREE_Y, in quarter pixels (-window.innerWidth / 2 and 0)
TREE_X(iw) == 0 - 2 * iw
TREE_Y == 0

RECURSIVE FindRootTopmost(_, _)
FindRootTopmost(ppl, clicked) ==
    IF \E j \in 1..Len(ppl) : Includes(ppl[j].children, clicked)
    THEN FindRootTopmost(ppl,
             ppl[CHOOSE j \in 1..Len(ppl) :
                    /\ Includes(ppl[j].children, clicked)
                    /\ \A k \in 1..(j - 1) : ~Includes(ppl[k].children, clicked)].id)
    ELSE clicked

\* people.find(p => p.children && p.children.find(c => c.id == root.id)) || root
FindRoot(ppl, clicked) ==
    IF \E j \in 1..Len(ppl) : Includes(ppl[j].children, clicked)
    THEN ppl[CHOOSE j \in 1..Len(ppl) :
                /\ Includes(ppl[j].children, clicked)
                /\ \A k \in 1..(j - 1) : ~Includes(ppl[k].children, clicked)].id
    ELSE clicked

\* The render state: what layOut and the pan handlers read and write.
View(rt, dv, ln, memo) == [root |-> rt, divs |-> dv, lines |-> ln, width |-> memo]

LayOutKeepLines(ppl, iw, v, clicked) ==
    LET rt == FindRoot(ppl, clicked)
        fresh == [id \in Ids(ppl) |-> NewDiv]
        shown == Show(ppl, fresh, rt)
        L == Place(ppl, Lay(shown, v.width), rt, TREE_X(iw), TREE_Y)
    IN  View(rt, L.divs, v.lines \o Draw(ppl, L.divs, rt), L.memo)

\* layOut(root, people) from the render state v: the svg is emptied, every
\* old div is removed, setUpPerson gives every person a new div (and leaves
\* _width as it is), then root.show(), root.place(TREE_X, TREE_Y), root.draw().
LayOut(ppl, iw, v, clicked) ==
    LET rt == FindRoot(ppl, clicked)
        fresh == [id \in Ids(ppl) |-> NewDiv]
        shown == Show(ppl, fresh, rt)
        L == Place(ppl, Lay(shown, v.width), rt, TREE_X(iw), TREE_Y)
    IN  View(rt, L.divs, Draw(ppl, L.divs, rt), L.memo)

-----------------------------------------------------------------------------
(* The mouse pan *)

\* for (const line of svg.children) line.setAttribute(..., parseFloat(...) + x / y)
MoveLines(ln, x, y) ==
    [i \in 1..Len(ln) |->
        IF ln[i].nan THEN ln[i]
        ELSE [ln[i] EXCEPT !.x1 = @ + x, !.y1 = @ + y, !.x2 = @ + x, !.y2 = @ + y]]

\* The body of onMouseMove for an event at (clientX, clientY), in pixels,
\* with startX = sx and startY = sy: every div of divs (in the document or
\* not) and every line is moved by the difference.
OnMouseMove(v, sx, sy, clientX, clientY) ==
    LET x == Q(clientX - sx)
        y == Q(clientY - sy)
    IN  [v EXCEPT !.divs = [id \in DOMAIN v.divs |-> MoveDiv(v.divs[id], x, y)],
                  !.lines = MoveLines(v.lines, x, y)]

\* The loops of onMouseMove and onTouchMove when startX and startY are
\* undefined: x and y are NaN, so "NaNpx" is no valid length and every div
\* keeps its style, and every attribute of every line is set to NaN.
PanUndefined(v) ==
    [v EXCEPT !.lines = [i \in 1..Len(v.lines) |->
                            [v.lines[i] EXCEPT !.nan = TRUE, !.x1 = 0, !.y1 = 0,
                                               !.x2 = 0, !.y2 = 0]]]

\* What a handler leaves in startX and startY.
Start(defined, x, y) == [defined |-> defined, x |-> x, y |-> y]

\* tree.onmousedown: startX = e.clientX; startY = e.clientY
MouseStart(clientX, clientY) == Start(TRUE, clientX, clientY)

\* tree.ontouchstart for a touch at (clientX, clientY): it reads e.clientX and
\* e.clientY of the TouchEvent, which has no such properties (the touches
\* have), so both are undefined.
TouchStartPoint(clientX, clientY) == Start(FALSE, 0, 0)

\* The body of onTouchMove for a single touch at (clientX, clientY), in pixels.
OnTouchMove(v, st, clientX, clientY) ==
    IF st.defined
    THEN LET x == Q(clientX - st.x)
             y == Q(clientY - st.y)
         IN  [v EXCEPT !.divs = [id \in DOMAIN v.divs |-> MoveDiv(v.divs[id], x, y)],
                       !.lines = MoveLines(v.lines, x, y)]
    ELSE PanUndefined(v)

-----------------------------------------------------------------------------
(* Inputs *)

\* A record with the name equal to the id.
P(id, partner, hasChildren, children) == Rec(id, id, partner, hasChildren, children)

\* The scenario couple: the children are listed on b's record only.
Couple ==
    <<Json(<<P("a", "b", FALSE, <<>>), P("b", "a", TRUE, <<"c", "d">>),
             P("c", "", FALSE, <<>>), P("d", "", FALSE, <<>>)>>)>>

\* One source that does not parse beside a well-formed one.
OneMalformed ==
    <<Malformed, Json(<<P("a", "b", TRUE, <<"c">>), P("b", "a", FALSE, <<>>)>>)>>

\* A single parent e whose children have partners; a is also q's partner.
SingleParent ==
    <<Json(<<P("q", "a", TRUE, <<"e">>), P("e", "", TRUE, <<"a", "c">>)>>),
      Json(<<P("a", "b", TRUE, <<>>), P("c", "d", FALSE, <<>>)>>)>>

\* Three generations in three sources; x is referenced and never defined.
Generations ==
    <<Json(<<P("g", "h", TRUE, <<"a">>)>>),
      Json(<<P("a", "b", TRUE, <<"c", "d">>), P("h", "g", FALSE, <<>>)>>),
      Json(<<P("c", "x", TRUE, <<"e">>), P("d", "", FALSE, <<>>),
             P("b", "a", TRUE, <<"c", "d">>)>>)>>

\* A marriage within the family: y, a child of w and v, is married to c, the
\* grandchild of y's unmarried sibling u (v, x and c have no record).
InLaws ==
    <<Json(<<P("w", "v", TRUE, <<"u", "y">>), P("u", "", TRUE, <<"p">>),
             P("p", "x", TRUE, <<"c">>), P("y", "c", FALSE, <<>>)>>)>>

\* The submissions explored with the layout: every one links into a forest.
Submissions == {Couple, OneMalformed, SingleParent, Generations}

\* The records the merge and the linker are explored with: two ids with a
\* record, a third id x that is only ever referenced.
ChildrenOptions ==
    {<<FALSE, <<>> >>, <<TRUE, <<>> >>, <<TRUE, <<"a">> >>, <<TRUE, <<"b">> >>,
     <<TRUE, <<"x">> >>, <<TRUE, <<"x", "b">> >>}

GenRecords ==
    {P(id, partner, ch[1], ch[2]) :
        id \in {"a", "b"}, partner \in {"", "a", "b", "x"}, ch \in ChildrenOptions}

\* Two sources: one record in the first, one or two in the second.
GenSubmissions ==
    {<<Json(<<r1>>), Json(<<r2>>)>> : r1 \in GenRecords, r2 \in GenRecords}
    \cup {<<Json(<<r1>>), Json(<<r2, r3>>)>> :
             r1 \in GenRecords, r2 \in GenRecords, r3 \in GenRecords}

\* window.innerWidth, in pixels: an odd width, so that TREE_X falls on a half pixel
InnerWidths == {801}

\* clientX and clientY of the mouse and touch events, in pixels
Coords == {0, 1}

\* (clientX, clientY) of the pointer events handled
Points == {<<c, c>> : c \in Coords}

\* The number of mousemove and touchmove events explored.
MaxMoves == 1

-----------------------------------------------------------------------------
(* State machine *)

NoEvent == [kind |-> "none", arg |-> "", again |-> FALSE]
Event(kind, arg, again) == [kind |-> kind, arg |-> arg, again |-> again]

Render == View(root, divs, lines, width)

InitWith(subs, widths) ==
    /\ innerWidth \in widths
    /\ files \in subs
    /\ pending = 1..Len(files)
    /\ jsons = <<>>
    /\ startedAt = <<>>
    /\ pc = "reading"
    /\ people = <<>>
    /\ warnings = <<>>
    /\ width = <<>>
    /\ divs = <<>>
    /\ lines = <<>>
    /\ root = ""
    /\ mouseOver = FALSE
    /\ dragging = FALSE
    /\ startX = 0
    /\ startY = 0
    /\ startDefined = FALSE
    /\ touching = FALSE
    /\ last = NoEvent
    /\ nEvents = 0

Init == InitWith(Submissions, InnerWidths)

StartOnEveryRead(js, fs) == Len(js) >= 1

\* if (jsons.length == files.length)
AllRead(js, fs) == Len(js) = Len(fs)

\* reader.onload for the i-th file: fileSink, and with the last read start(),
\* whose fromJSON call runs to its end (it awaits nothing) and settles the promise.
FileSink(i) ==
    /\ i \in pending
    /\ pending' = pending \ {i}
    /\ jsons' = Append(jsons, files[i])
    /\ IF AllRead(jsons', files)
       THEN /\ startedAt' = Append(startedAt, Len(jsons'))
            /\ IF ParseThrows(jsons')
               THEN /\ pc' = "rejected"
                    /\ UNCHANGED <<people, warnings, width>>
               ELSE /\ pc' = "resolved"
                    /\ people' = FromJSON(jsons').arr
                    /\ warnings' = FromJSON(jsons').warns
                    /\ width' = [id \in Ids(people') |-> 0]
       ELSE UNCHANGED <<startedAt, pc, people, warnings, width>>
    /\ UNCHANGED <<innerWidth, files, divs, lines, root, mouseOver, dragging,
                   startX, startY, last, nEvents, startDefined, touching>>

SetView(v) ==
    /\ root' = v.root
    /\ divs' = v.divs
    /\ lines' = v.lines
    /\ width' = v.width

\* .then(people => layOut(people[0], people)): runs only when the promise resolved
ThenLayOut ==
    /\ pc = "resolved"
    /\ Len(people) > 0
    /\ pc' = "ready"
    /\ SetView(LayOut(people, innerWidth, Render, people[1].id))
    /\ UNCHANGED <<innerWidth, files, pending, jsons, startedAt, people, warnings,
                   mouseOver, dragging, startX, startY, last, nEvents, startDefined, touching>>

\* div.onclick of the div of person c, which is in the document
Click(c) ==
    /\ pc = "ready"
    /\ ~dragging
    /\ c \in DOMAIN divs
    /\ divs[c].attached
    /\ SetView(LayOut(people, innerWidth, Render, c))
    /\ last' = Event("click", c, last.kind = "click" /\ last.arg = c)
    /\ UNCHANGED <<innerWidth, files, pending, jsons, startedAt, pc, people, warnings,
                   mouseOver, dragging, startX, startY, nEvents, startDefined, touching>>

\* tree.onmouseover
MouseOver ==
    /\ pc = "ready"
    /\ mouseOver' = TRUE
    /\ UNCHANGED <<innerWidth, files, pending, jsons, startedAt, pc, people, warnings,
                   width, divs, lines, root, dragging, startX, startY, last, nEvents,
                   startDefined, touching>>

\* tree.onmouseout
MouseOut ==
    /\ pc = "ready"
    /\ mouseOver' = FALSE
    /\ UNCHANGED <<innerWidth, files, pending, jsons, startedAt, pc, people, warnings,
                   width, divs, lines, root, dragging, startX, startY, last, nEvents,
                   startDefined, touching>>

\* tree.onmousedown at (clientX, clientY)
MouseDown(clientX, clientY) ==
    /\ pc = "ready"
    /\ ~dragging
    /\ mouseOver
    /\ startX' = MouseStart(clientX, clientY).x
    /\ startY' = MouseStart(clientX, clientY).y
    /\ startDefined' = MouseStart(clientX, clientY).defined
    /\ dragging' = TRUE
    /\ UNCHANGED <<innerWidth, files, pending, jsons, startedAt, pc, people, warnings,
                   width, divs, lines, root, mouseOver, last, nEvents, touching>>

\* document.onmousemove at (clientX, clientY), installed by onmousedown
MouseMove(clientX, clientY) ==
    /\ dragging
    /\ nEvents < MaxMoves
    /\ nEvents' = nEvents + 1
    /\ SetView(IF startDefined
               THEN OnMouseMove(Render, startX, startY, clientX, clientY)
               ELSE PanUndefined(Render))
    /\ startX' = clientX
    /\ startY' = clientY
    /\ startDefined' = TRUE
    /\ last' = Event("move", "", FALSE)
    /\ UNCHANGED <<innerWidth, files, pending, jsons, startedAt, pc, people, warnings,
                   mouseOver, dragging, touching>>

\* document.onmouseup: onMouseUp
MouseUp ==
    /\ dragging
    /\ dragging' = FALSE
    /\ UNCHANGED <<innerWidth, files, pending, jsons, startedAt, pc, people, warnings,
                   width, divs, lines, root, mouseOver, startX, startY, last, nEvents, startDefined, touching>>

\* tree.ontouchstart for a touch at (clientX, clientY)
TouchStart(clientX, clientY) ==
    /\ pc = "ready"
    /\ startX' = TouchStartPoint(clientX, clientY).x
    /\ startY' = TouchStartPoint(clientX, clientY).y
    /\ startDefined' = TouchStartPoint(clientX, clientY).defined
    /\ touching' = TRUE
    /\ UNCHANGED <<innerWidth, files, pending, jsons, startedAt, pc, people, warnings,
                   width, divs, lines, root, mouseOver, dragging, last, nEvents>>

\* document.ontouchmove with one touch at (clientX, clientY), installed by
\* ontouchstart (with any other number of touches onTouchMove returns at once)
TouchMove(clientX, clientY) ==
    /\ touching
    /\ nEvents < MaxMoves
    /\ nEvents' = nEvents + 1
    /\ SetView(OnTouchMove(Render, Start(startDefined, startX, startY), clientX, clientY))
    /\ startX' = clientX
    /\ startY' = clientY
    /\ startDefined' = TRUE
    /\ last' = Event("move", "", FALSE)
    /\ UNCHANGED <<innerWidth, files, pending, jsons, startedAt, pc, people, warnings,
                   mouseOver, dragging, touching>>

\* document.ontouchend: onTouchEnd
TouchEnd ==
    /\ touching
    /\ touching' = FALSE
    /\ UNCHANGED <<innerWidth, files, pending, jsons, startedAt, pc, people, warnings,
                   width, divs, lines, root, mouseOver, dragging, startX, startY,
                   startDefined, last, nEvents>>

Next ==
    \/ \E i \in 1..Len(files) : FileSink(i)
    \/ ThenLayOut
    \/ \E c \in DOMAIN divs : Click(c)
    \/ MouseOver
    \/ MouseOut
    \/ \E p \in Points : MouseDown(p[1], p[2])
    \/ \E p \in Points : MouseMove(p[1], p[2])
    \/ MouseUp
    \/ \E p \in Points : TouchStart(p[1], p[2])
    \/ \E p \in Points : TouchMove(p[1], p[2])
    \/ TouchEnd

Spec == Init /\ [][Next]_vars

\* The loading pipeline alone (the reads, the merge and the linker), over
\* the generated records.
\* The program on the InLaws submission.
InitInLaws == InitWith({InLaws}, InnerWidths)

SpecInLaws == InitInLaws /\ [][Next]_vars

InitMerge == InitWith(GenSubmissions, InnerWidths)

NextMerge == \E i \in 1..Len(files) : FileSink(i)

SpecMerge == InitMerge /\ [][NextMerge]_vars

-----------------------------------------------------------------------------
(* Properties *)

\* The divs are on the half-pixel grid and the rows on whole pixels, so the
\* halvings of draw lose nothing in quarter pixels.
OnGrid ==
    \A id \in DOMAIN divs : divs[id].left % 2 = 0 /\ divs[id].top % 4 = 0

\* C1: for a submission of N >= 1 files, under every order of the N read
\* completions, start is invoked exactly once, with the N-th completion, and
\* never while fewer than N reads have completed.
C1_StartOnceAtLastRead ==
    /\ Len(jsons) < Len(files) => startedAt = <<>>
    /\ Len(jsons) = Len(files) => startedAt = <<Len(files)>>

\* C1 witness: three reads completed out of file order and start ran once.
C1_Witness ==
    /\ Len(files) = 3
    /\ pending = {}
    /\ jsons[1] = files[3]
    /\ startedAt = <<3>>

\* The graph of an array of linked persons: id -> name, partner, children.
Graph(ppl) ==
    [id \in Ids(ppl) |->
        [name |-> PersonOf(ppl, id).name,
         partner |-> PersonOf(ppl, id).partner,
         children |-> PersonOf(ppl, id).children]]

\* C2 (as claimed): every order of read completion yields the same merged
\* and linked graph: the same ids and for each id the same name, partner
\* and children sequence as the completion order files[1], files[2], ...
C2_OrderInsensitive ==
    (pc = "resolved") => Graph(people) = Graph(FromJSON(files).arr)

\* C3 (as claimed): after fromJSON, whenever A.partner is B, B.partner is A.
C3_PartnerSymmetric ==
    (pc = "resolved") =>
        \A i \in 1..Len(people) :
            people[i].partner # "" =>
                PersonOf(people, people[i].partner).partner = people[i].id

\* The lines of one kind among the current lines.
LinesOf(kind) == {i \in 1..Len(lines) : lines[i].kind = kind}

\* C4 (as claimed): for the couple a (partner b), b (partner a, children c
\* and d of box width 50), laid out from a: childrenWidth(a) = 120,
\* width(a) = 120, and a sibling-span line joins c's and d's stubs.
C4_CoupleFromA ==
    (files = Couple /\ pc = "ready" /\ root = "a") =>
        /\ GetChildrenWidth(people, divs, width, "a").w = 120
        /\ GetWidth(people, divs, width, "a").w = 120
        /\ LinesOf("connectChildren") # {}

\* C5 (as claimed): every person without a partner has childrenWidth 0 and
\* a width equal to its own box width, whatever its children.
C5_SingleHasNoChildrenWidth ==
    (pc = "ready") =>
        \A id \in Ids(people) :
            (PersonOf(people, id).partner = "" /\ divs[id].attached) =>
                /\ GetChildrenWidth(people, divs, width, id).w = 0
                /\ GetWidth(people, divs, width, id).w = OffsetWidth(people, divs, id)

\* The ids of the records of the well-formed sources read so far.
WellFormedIds == UNION {Ids(jsons[i].recs) : i \in {j \in 1..Len(jsons) : jsons[j].ok}}

\* C6 (as claimed): once all reads are in and the pipeline has run, a
\* malformed source among several has not kept the well-formed ones from
\* being merged, linked and laid out, and the failure was reported.
C6_MalformedSourceIsLocal ==
    (pending = {} /\ pc # "resolved" /\ ParseThrows(jsons)
        /\ \E i \in 1..Len(jsons) : jsons[i].ok) =>
        /\ pc = "ready"
        /\ WellFormedIds \subseteq Ids(people)
        /\ \A id \in WellFormedIds : id \in DOMAIN divs
        /\ warnings # <<>>

\* The ids the merged records refer to, as partner or as child.
Refs(recs) ==
    {recs[i].partner : i \in {j \in 1..Len(recs) : recs[j].partner # ""}}
    \cup UNION {Range(recs[i].children) : i \in {j \in 1..Len(recs) : recs[j].hasChildren}}

Count(seq, x) == Cardinality({i \in 1..Len(seq) : seq[i] = x})

\* C7: after fromJSON every partner or child id of a merged record is the id
\* of exactly one person of the result; an id with no record gets one
\* warning and one placeholder named after the id with no children; no id
\* occurs twice, and there is no warning for an id that has a record.
C7_ReferencesResolveOnce ==
    (pc = "resolved") =>
        LET merged == MergeDuplicates(ParseAll(jsons))
        IN  /\ \A i, j \in 1..Len(people) : people[i].id = people[j].id => i = j
            /\ \A r \in Refs(merged) :
                  /\ Cardinality({i \in 1..Len(people) : people[i].id = r}) = 1
                  /\ r \notin Ids(merged) =>
                        /\ PersonOf(people, r).name = r
                        /\ PersonOf(people, r).children = <<>>
                        /\ Count(warnings, r) = 1
            /\ \A i \in 1..Len(warnings) :
                  warnings[i] \in Refs(merged) \ Ids(merged)
            /\ \A i \in 1..Len(people) :
                  /\ people[i].partner # "" => people[i].partner \in Ids(people)
                  /\ Range(people[i].children) \subseteq Ids(people)

\* C7 witness: x has no record and is referenced twice, as a partner and as
\* a child; one placeholder and one warning came of it.
C7_Witness ==
    /\ pc = "resolved"
    /\ "x" \notin Ids(ParseAll(jsons))
    /\ \E i, j \in 1..Len(people) :
          /\ i # j
          /\ people[i].partner = "x"
          /\ Includes(people[j].children, "x")
    /\ Count(warnings, "x") = 1

\* The records with this id in a source.
WithId(file, id) == {i \in 1..Len(file.recs) : file.recs[i].id = id}

\* Sources f1 and f2 each hold one record for id: f1's has a partner and no
\* children, f2's has children and no partner.
ComplementaryFor(f1, f2, id) ==
    /\ Cardinality(WithId(f1, id)) = 1
    /\ Cardinality(WithId(f2, id)) = 1
    /\ LET r1 == f1.recs[CHOOSE i \in WithId(f1, id) : TRUE]
           r2 == f2.recs[CHOOSE i \in WithId(f2, id) : TRUE]
       IN  /\ r1.partner # ""
           /\ r1.children = <<>>
           /\ r2.partner = ""
           /\ r2.children # <<>>

\* C8: two sources with a record of the same id and complementary fields,
\* met in either order, merge into exactly one person with that id, who has
\* the partner of the one and the children of the other.
C8_ComplementaryMerge ==
    (pc = "resolved" /\ Len(jsons) = 2) =>
        \A id \in Ids(ParseAll(jsons)) :
            \A k \in 1..2 :
                ComplementaryFor(jsons[k], jsons[3 - k], id) =>
                    /\ Cardinality({i \in 1..Len(people) : people[i].id = id}) = 1
                    /\ PersonOf(people, id).partner =
                          jsons[k].recs[CHOOSE i \in WithId(jsons[k], id) : TRUE].partner
                    /\ PersonOf(people, id).children =
                          jsons[3 - k].recs[CHOOSE i \in WithId(jsons[3 - k], id) : TRUE].children

\* C8 witness: the source with the children was met first, the one with the
\* partner second, and the records' children property was absent on one side.
C8_Witness ==
    /\ pc = "resolved"
    /\ Len(jsons) = 2
    /\ ComplementaryFor(jsons[2], jsons[1], "a")
    /\ ~jsons[2].recs[CHOOSE i \in WithId(jsons[2], "a") : TRUE].hasChildren
    /\ PersonOf(people, "a").partner = "b"
    /\ PersonOf(people, "a").children = <<"x", "b">>

\* C9: in every state a click on a person has led to, laying out from the
\* same person once more changes nothing: not the root, the divs in the
\* document, any position, any line or any memoized width.
C9_ReRootIdempotent ==
    (pc = "ready" /\ last.kind = "click") =>
        LayOut(people, innerWidth, Render, last.arg) = Render

\* C9 witness: after a pan, the same person was clicked twice in a row, the
\* tree was drawn from that person's parent and has children lines.
C9_Witness ==
    /\ pc = "ready"
    /\ nEvents > 0
    /\ last.kind = "click"
    /\ last.again
    /\ root # last.arg
    /\ LinesOf("connectChildren") # {}

\* C10 (as claimed): in a drag, a move by (dx, dy) and then by (-dx, -dy)
\* puts every div in the document and every line back where it was, and
\* neither move changes the root, the divs and lines there are, or a width.
C10_PanThereAndBack ==
    (pc = "ready" /\ dragging) =>
        \A dx \in {-1, 0, 1}, dy \in {-1, 0, 1} :
            LET there == OnMouseMove(Render, startX, startY, startX + dx, startY + dy)
                back == OnMouseMove(there, startX + dx, startY + dy, startX, startY)
            IN  /\ \A id \in DOMAIN divs :
                      divs[id].attached =>
                          /\ back.divs[id].left = divs[id].left
                          /\ back.divs[id].top = divs[id].top
                /\ back.lines = lines
                /\ \A v \in {there, back} :
                      /\ v.root = root
                      /\ v.width = width
                      /\ DOMAIN v.divs = DOMAIN divs
                      /\ \A id \in DOMAIN divs : v.divs[id].attached = divs[id].attached
                      /\ Len(v.lines) = Len(lines)

\* C11 (as claimed): on any tree shown, a touchstart at a point followed by a
\* touchmove to a second point leaves every div in the document and every
\* line with the values that a mousedown at the first point followed by a
\* mousemove to the second leaves.
C11_TouchPanIsMousePan ==
    (pc = "ready") =>
        \A from \in Points, to \in Points :
            LET mouse == OnMouseMove(Render, MouseStart(from[1], from[2]).x,
                                     MouseStart(from[1], from[2]).y, to[1], to[2])
                touch == OnTouchMove(Render, TouchStartPoint(from[1], from[2]),
                                     to[1], to[2])
            IN  /\ \A id \in DOMAIN divs :
                      divs[id].attached =>
                          /\ touch.divs[id].left = mouse.divs[id].left
                          /\ touch.divs[id].top = mouse.divs[id].top
                /\ touch.lines = mouse.lines

\* The ids whose div person.show() appends to the tree, in order.
RECURSIVE Shown(_, _)
RECURSIVE ShownOfAll(_, _)
ShownOfAll(ppl, children) ==
    IF children = <<>> THEN <<>>
    ELSE Shown(ppl, Head(children)) \o ShownOfAll(ppl, Tail(children))

Shown(ppl, id) ==
    LET person == PersonOf(ppl, id)
    IN  IF person.partner # ""
        THEN <<id, person.partner>> \o ShownOfAll(ppl, person.children)
        ELSE <<id>>

\* The ids on which place() is called when it is called on id.
RECURSIVE Placed(_, _)
Placed(ppl, id) ==
    LET person == PersonOf(ppl, id)
    IN  {id} \cup (IF person.partner # ""
                   THEN UNION {Placed(ppl, person.children[i]) :
                                  i \in 1..Len(person.children)}
                   ELSE {})

\* Every person is a child of at most one person, once.
Forest(ppl) ==
    \A id \in Ids(ppl) :
        Cardinality({<<i, k>> \in (1..Len(ppl)) \X (1..Len(ppl)) :
                        k <= Len(ppl[i].children) /\ ppl[i].children[k] = id}) <= 1

ShownOnce(ppl, rt) == \A id \in Ids(ppl) : Count(Shown(ppl, rt), id) <= 1

\* The x that place() was called with on id, in quarter pixels, from where
\* it put the box: personLeft = x + (getWidth() - getPartnerWidth()) / 2.
PlaceX(id) == divs[id].left - 2 * (width[id] - GetPartnerWidth(people, divs, id))

\* A layout has just been made: nothing was panned since.
LaidOut == pc = "ready" /\ last.kind # "move"

\* C12 (as claimed): after a layout of a forest that shows each person at
\* most once, two boxes of the same row are at least PERSON_SPACE apart, and
\* every box shown by a placed person p lies within [x, x + width(p)] of the
\* x given to p.place.
C12_CollisionFree ==
    (LaidOut /\ Forest(people) /\ ShownOnce(people, root)) =>
        /\ \A i \in Range(Shown(people, root)), j \in Range(Shown(people, root)) :
              (i # j /\ divs[i].top = divs[j].top) =>
                  \/ Rect(people, divs, i).right + Q(PERSON_SPACE) <= divs[j].left
                  \/ Rect(people, divs, j).right + Q(PERSON_SPACE) <= divs[i].left
        /\ \A p \in Placed(people, root) :
              \A q \in Range(Shown(people, p)) :
                  /\ PlaceX(p) <= divs[q].left
                  /\ Rect(people, divs, q).right <= PlaceX(p) + Q(width[p])

\* The persons person.draw() is called on when it is called on id, in order.
RECURSIVE Drawn(_, _)
RECURSIVE DrawnOfAll(_, _)
DrawnOfAll(ppl, children) ==
    IF children = <<>> THEN <<>>
    ELSE Drawn(ppl, Head(children)) \o DrawnOfAll(ppl, Tail(children))

Drawn(ppl, id) ==
    LET person == PersonOf(ppl, id)
    IN  IF person.partner # "" THEN <<id>> \o DrawnOfAll(ppl, person.children)
        ELSE <<id>>

Kinds(ln) == [i \in 1..Len(ln) |-> ln[i].kind]

LineKinds == {"partner", "partnerToChildren", "child", "onlyChild", "connectChildren"}

\* The number of lines of a kind that the draw() calls on these persons emit.
RECURSIVE EmittedBy(_, _)
EmittedBy(children, kind) ==
    IF children = <<>> THEN 0
    ELSE Count(Kinds(Draw(people, divs, Head(children))), kind)
         + EmittedBy(Tail(children), kind)

\* The number of lines of a kind that draw() on id emits itself, outside the
\* draw() calls it makes on its children.
Own(id, kind) ==
    Count(Kinds(Draw(people, divs, id)), kind)
    - (IF PersonOf(people, id).partner # ""
       THEN EmittedBy(PersonOf(people, id).children, kind)
       ELSE 0)

\* C13: the lines of the svg are those of root.draw(), and every person
\* that draw() is called on emits: without a partner no line; with a partner
\* one partner line, and a sibling-span line (connectChildren), a descent
\* stub (partnerToChildren) and one child stub per child exactly when it has
\* more than one child, none of these three otherwise; and one vertical
\* line (onlyChild) exactly when it has one child.
C13_LinesPerNode ==
    (pc = "ready") =>
        /\ Kinds(lines) = Kinds(Draw(people, divs, root))
        /\ \A id \in Range(Drawn(people, root)) :
              LET person == PersonOf(people, id)
                  n == Len(person.children)
              IN  /\ person.partner = "" => Draw(people, divs, id) = <<>>
                  /\ person.partner # "" =>
                        /\ Own(id, "partner") = 1
                        /\ n > 1 <=> /\ Own(id, "connectChildren") = 1
                                      /\ Own(id, "partnerToChildren") = 1
                                      /\ Own(id, "child") = n
                        /\ n <= 1 => /\ Own(id, "connectChildren") = 0
                                      /\ Own(id, "partnerToChildren") = 0
                                      /\ Own(id, "child") = 0
                        /\ Own(id, "onlyChild") = (IF n = 1 THEN 1 ELSE 0)
                        /\ \A i \in 1..Len(lines) : lines[i].kind \in LineKinds

\* The tree of three generations drawn from g: g and c have one child, a
\* has two, d and e have no partner.
C13_Witness ==
    /\ pc = "ready"
    /\ files = Generations
    /\ root = "g"
    /\ Range(Drawn(people, root)) = {"g", "a", "c", "d", "e"}
    /\ Cardinality(LinesOf("onlyChild")) = 2
    /\ Cardinality(LinesOf("connectChildren")) = 1
    /\ Cardinality(LinesOf("child")) = 2

\* The indices in people of the persons that list id among their children.
Listing(id) == {j \in 1..Len(people) : Includes(people[j].children, id)}

\* C14: the tree shown after a click on c is drawn from the first person of
\* people that lists c among its children, and from c when there is none;
\* so the root is c or a person listing c, whether or not that person is
\* itself listed as a child.
C14_RootOneLevelUp ==
    (pc = "ready" /\ last.kind = "click") =>
        LET c == last.arg
        IN  /\ Listing(c) = {} => root = c
            /\ Listing(c) # {} =>
                  \E j \in Listing(c) :
                      /\ \A k \in Listing(c) : j <= k
                      /\ root = people[j].id
            /\ root = c \/ Includes(PersonOf(people, root).children, c)

\* A click on a person that two persons list, the first of which is itself
\* listed as a child.
C14_Witness ==
    /\ pc = "ready"
    /\ last.kind = "click"
    /\ Cardinality(Listing(last.arg)) > 1
    /\ root # last.arg
    /\ Listing(root) # {}

=============================================================================
